---- MODULE Spec2Model ----
(***************************************************************************)
(* NM COAST traffic-counter API.                                           *)
(*                                                                         *)
(*   api/nmcoast_api.py      the mock-data FastAPI app                     *)
(*   api/nmcoast_api_new.py  the SQLite-backed FastAPI app, DatabaseManager*)
(*                           and the loader (validate_data / load_data /   *)
(*                           create_initial_sql_database)                  *)
(*                                                                         *)
(* Rows carry their key columns (counter_id, datastream_id, count_id) and   *)
(* one column of each numeric kind; the remaining columns take no part in  *)
(* routing, filtering or the 404/500 decisions.                            *)
(***************************************************************************)
EXTENDS Integers, Sequences, FiniteSets, TLC

VARIABLES
    db,               \* the SQLite file: table name -> [exists, rows]
    pc,               \* "idle" | "csv" (inside load_data's chunk loop) | "serving"
    load,             \* the current / last load_data call
    cisd,             \* create_initial_sql_database: 0 not running, 1..3 next file to load
    dunder_name,      \* __name__ of nmcoast_api_new when it was executed
    routes,           \* paths routed on nmcoast_api_new.app
    resp,             \* the last HTTP response of nmcoast_api_new.app
    mock_routes,      \* paths routed on nmcoast_api.app
    mock_counters,    \* nmcoast_api.mock_counters
    mock_datastreams, \* nmcoast_api.mock_datastreams
    mock_counts,      \* nmcoast_api.mock_counts
    mock_resp,        \* the last HTTP response of nmcoast_api.app
    vd_df,            \* validate_data: the DataFrame handed in
    vd_model,         \* validate_data: the schema handed in
    vd_out,           \* validate_data: its outcome
    rep_call,         \* a repeated load_data call: its arguments
    rep_file,         \* ... the rows of the file it reads
    rep_tables,       \* ... the target table after each return
    gen               \* nmcoast_api's count generation loop: its position and locals

vars == <<db, pc, load, cisd, dunder_name, routes, resp,
          mock_routes, mock_counters, mock_datastreams, mock_counts, mock_resp,
          vd_df, vd_model, vd_out, rep_call, rep_file, rep_tables, gen>>

dbVars   == <<db, pc, load, cisd, dunder_name, routes, resp>>
mockVars == <<mock_routes, mock_counters, mock_datastreams, mock_counts, mock_resp>>
vdVars   == <<vd_df, vd_model, vd_out>>
repVars  == <<rep_call, rep_file, rep_tables>>
genVars  == <<gen>>

----------------------------------------------------------------------------
(* Bounds *)

MaxId == 2          \* ids in input files and requests range over 1..MaxId
MaxXlsxRows == 2    \* rows of an .xlsx file
MaxCsvRows == 2     \* rows of a .csv file
ChunkSize == 1      \* stands for chunk_size (100000 in the source), scaled down
MaxMock == 2        \* length of each mock list drawn for the mock handlers

Ids == 1 .. MaxId
ReqIds == 0 .. MaxId          \* a request may also name an id no file can hold

----------------------------------------------------------------------------
(* HTTP status codes (fastapi.status) *)

HTTP_200_OK == 200
HTTP_404_NOT_FOUND == 404
HTTP_500_INTERNAL_SERVER_ERROR == 500

----------------------------------------------------------------------------
(* Strings: the file extensions, column headers and stored values the     *)
(* program lower-cases or rewrites, with their spelling.                   *)

chars(s) ==
    CASE s = ""              -> <<>>
      [] s = ".csv"          -> <<".", "c", "s", "v">>
      [] s = ".CSV"          -> <<".", "C", "S", "V">>
      [] s = ".xlsx"         -> <<".", "x", "l", "s", "x">>
      [] s = ".XLSX"         -> <<".", "X", "L", "S", "X">>
      [] s = ".xls"          -> <<".", "x", "l", "s">>
      [] s = ".Xls"          -> <<".", "X", "l", "s">>
      [] s = ".txt"          -> <<".", "t", "x", "t">>
      [] s = ".bak"          -> <<".", "b", "a", "k">>
      [] s = "counter_id"    -> <<"c", "o", "u", "n", "t", "e", "r", "_", "i", "d">>
      [] s = "Counter ID"    -> <<"C", "o", "u", "n", "t", "e", "r", " ", "I", "D">>
      [] s = "counter id"    -> <<"c", "o", "u", "n", "t", "e", "r", " ", "i", "d">>
      [] s = "latitude"      -> <<"l", "a", "t", "i", "t", "u", "d", "e">>
      [] s = "LATITUDE"      -> <<"L", "A", "T", "I", "T", "U", "D", "E">>
      [] s = "datastream_id" -> <<"d", "a", "t", "a", "s", "t", "r", "e", "a", "m", "_", "i", "d">>
      [] s = "count_id"      -> <<"c", "o", "u", "n", "t", "_", "i", "d">>
      [] s = "Count ID"      -> <<"C", "o", "u", "n", "t", " ", "I", "D">>
      [] s = "count id"      -> <<"c", "o", "u", "n", "t", " ", "i", "d">>
      [] s = "raw_count"     -> <<"r", "a", "w", "_", "c", "o", "u", "n", "t">>
      [] s = "Raw Count"     -> <<"R", "a", "w", " ", "C", "o", "u", "n", "t">>
      [] s = "raw count"     -> <<"r", "a", "w", " ", "c", "o", "u", "n", "t">>
      [] s = "cleaned_count" -> <<"c", "l", "e", "a", "n", "e", "d", "_", "c", "o", "u", "n", "t">>
      [] s = "site_photo"    -> <<"s", "i", "t", "e", "_", "p", "h", "o", "t", "o">>
      [] s = "Site Photo"    -> <<"S", "i", "t", "e", " ", "P", "h", "o", "t", "o">>
      [] s = "site photo"    -> <<"s", "i", "t", "e", " ", "p", "h", "o", "t", "o">>
      [] s = "nan"           -> <<"n", "a", "n">>
      [] s = "NaN"           -> <<"N", "a", "N">>
      [] s = "none"          -> <<"n", "o", "n", "e">>
      [] s = "None"          -> <<"N", "o", "n", "e">>
      [] s = "NONE"          -> <<"N", "O", "N", "E">>
      [] s = "12"            -> <<"1", "2">>
      [] s = "1.5"           -> <<"1", ".", "5">>
      [] s = "abc"           -> <<"a", "b", "c">>

Spelled ==
    {"", ".csv", ".CSV", ".xlsx", ".XLSX",
     ".xls", ".Xls", ".txt", ".bak", "counter_id",
     "Counter ID", "counter id", "latitude", "LATITUDE", "datastream_id",
     "count_id", "Count ID", "count id", "raw_count", "Raw Count",
     "raw count", "cleaned_count", "site_photo", "Site Photo", "site photo",
     "nan", "NaN", "none", "None", "NONE", "12", "1.5", "abc"}

(* The string a sequence of characters spells. *)
string_of(cs) == CHOOSE s \in Spelled : chars(s) = cs

ascii_uppercase == <<"A", "B", "C", "D", "E", "F", "G", "H", "I", "J", "K", "L", "M",
                     "N", "O", "P", "Q", "R", "S", "T", "U", "V", "W", "X", "Y", "Z">>
ascii_lowercase == <<"a", "b", "c", "d", "e", "f", "g", "h", "i", "j", "k", "l", "m",
                     "n", "o", "p", "q", "r", "s", "t", "u", "v", "w", "x", "y", "z">>

lower_char(c) ==
    IF \E k \in 1 .. Len(ascii_uppercase) : ascii_uppercase[k] = c
    THEN ascii_lowercase[CHOOSE k \in 1 .. Len(ascii_uppercase) : ascii_uppercase[k] = c]
    ELSE c

(* str.lower(), worked out once for every string *)
lowered == [s \in Spelled |-> string_of([k \in 1 .. Len(chars(s)) |-> lower_char(chars(s)[k])])]

lower(s) == lowered[s]

(* str.replace(old, new) for one-character old and new *)
replace(s, old, new) ==
    string_of([k \in 1 .. Len(chars(s)) |-> IF chars(s)[k] = old THEN new ELSE chars(s)[k]])

----------------------------------------------------------------------------
(* Pydantic models.  Of each schema the model keeps the key fields and one *)
(* field of every numeric kind: Counter.latitude (required float),         *)
(* Count.raw_count (Optional[int]), Count.cleaned_count (Optional[float]). *)

Counter == "Counter"
Datastream == "Datastream"
Count == "Count"
Models == {Counter, Datastream, Count}

model_fields(model) ==
    CASE model = Counter    -> <<"counter_id", "latitude">>
      [] model = Datastream -> <<"datastream_id", "counter_id">>
      [] model = Count      -> <<"count_id", "datastream_id", "raw_count", "cleaned_count">>

FieldSet(model) == {model_fields(model)[i] : i \in 1 .. Len(model_fields(model))}

(* field_info.annotation: base_type and is_optional as validate_data       *)
(* derives them.                                                           *)
annotation(field_name) ==
    CASE field_name = "latitude"      -> [base_type |-> "float", is_optional |-> FALSE]
      [] field_name = "raw_count"     -> [base_type |-> "int",   is_optional |-> TRUE]
      [] field_name = "cleaned_count" -> [base_type |-> "float", is_optional |-> TRUE]
      [] OTHER                        -> [base_type |-> "int",   is_optional |-> FALSE]

(* The values of a DataFrame cell and of a record field.  A float is kept  *)
(* in halves: Float(3) is 1.5.  None is Python's None, NA is pandas.NA.    *)
IntCell(n) == [t |-> "int", n |-> n]
Float(halves) == [t |-> "float", n |-> halves]
NaN == [t |-> "nan", n |-> 0]
Inf == [t |-> "inf", n |-> 0]
NegInf == [t |-> "-inf", n |-> 0]
None == [t |-> "none", n |-> 0]
NA == [t |-> "NA", n |-> 0]
Str(s) == [t |-> "str", s |-> s]

(* int(value): an int is itself, a float is cut towards zero, a string is  *)
(* parsed as a decimal integer; what cannot be converted raises ValueError *)
(* or TypeError.                                                           *)
int(value) ==
    CASE value.t = "int"   -> [ok |-> TRUE, n |-> value.n]
      [] value.t = "float" -> [ok |-> TRUE,
                               n |-> IF value.n >= 0 THEN value.n \div 2
                                     ELSE 0 - ((0 - value.n) \div 2)]
      [] value.t = "str" /\ value.s = "12" -> [ok |-> TRUE, n |-> 12]
      [] OTHER             -> [ok |-> FALSE, n |-> 0]

(* The cells of an id column of an input file: an id or a blank. *)
Cells == {IntCell(n) : n \in Ids} \cup {NaN}

(* The files the loader reads hold the required columns under their field  *)
(* names; latitude is a plain coordinate (35.5).                           *)
RawRows(model) ==
    LET required == {f \in FieldSet(model) : ~annotation(f).is_optional}
    IN  {row \in [required -> Cells \cup {Float(71)}] :
            \A f \in required : row[f] = Float(71) <=> annotation(f).base_type = "float"}

RECURSIVE SeqsUpTo(_, _)
SeqsUpTo(S, n) ==
    IF n = 0 THEN {<<>>}
    ELSE LET shorter == SeqsUpTo(S, n - 1)
         IN  shorter \cup {Append(s, x) : s \in {t \in shorter : Len(t) = n - 1}, x \in S}

Frames(model, n) == SeqsUpTo(RawRows(model), n)

----------------------------------------------------------------------------
(* validate_data *)

(* A plausible slip: the header is lower-cased and its spaces are kept. *)
normalize_column_lower_only(col) == lower(col)

(* `col.lower().replace(' ', '_')`, worked out once for every header *)
normalized == [col \in Spelled |-> replace(lower(col), " ", "_")]

normalize_column(col) == normalized[col]

(* `df.columns = [col.lower().replace(' ', '_') for col in df.columns]`;   *)
(* a DataFrame is the sequence of its rows, each a dict column -> cell.    *)
normalize_columns(df) ==
    [i \in 1 .. Len(df) |->
        [c \in {normalize_column(col) : col \in DOMAIN df[i]} |->
            df[i][CHOOSE col \in DOMAIN df[i] : normalize_column(col) = c]]]

(* Series.astype('Int64'): a missing value of the nullable dtype is        *)
(* pandas.NA.                                                              *)
astype_Int64(cell) == IF cell = None THEN NA ELSE cell

(* Series.astype(float): None becomes NaN, an int its float. *)
astype_float(cell) ==
    IF cell = None THEN NaN
    ELSE IF cell.t = "int" THEN Float(2 * cell.n)
    ELSE cell

(* The int/float branch of the per-field coercion.  astype(int) on a       *)
(* required column leaves integers as they are and, when the column holds  *)
(* a NaN, fails and is ignored (errors='ignore').                          *)
coerce(field_name, cell) ==
    LET info == annotation(field_name)
    IN  IF info.is_optional
        THEN LET replaced == IF cell \in {NaN, Inf, NegInf} THEN None ELSE cell
             IN  IF info.base_type = "int" THEN astype_Int64(replaced)
                 ELSE astype_float(replaced)
        ELSE LET replaced == IF cell \in {Inf, NegInf} THEN NaN ELSE cell
             IN  IF info.base_type = "int" THEN replaced
                 ELSE astype_float(replaced)

(* The loop over model_fields: a field that is no column becomes a column  *)
(* of None and is not coerced, a field that is a column is coerced.        *)
prepare(df, model) ==
    [i \in 1 .. Len(df) |->
        [c \in DOMAIN df[i] \cup FieldSet(model) |->
            IF c \notin DOMAIN df[i] THEN None
            ELSE IF c \in FieldSet(model) THEN coerce(c, df[i][c])
            ELSE df[i][c]]]

(* A plausible slip: the whole frame goes to validation, with the columns  *)
(* that are no schema fields.                                              *)
df_to_validate_all_columns(df, model) == df

(* `df_to_validate = df[list(model_fields.keys())]` *)
df_to_validate(df, model) ==
    [i \in 1 .. Len(df) |-> [f \in FieldSet(model) |-> df[i][f]]]

(* Pydantic on one field: the value model_dump gives back, or a failure.   *)
(* An int field takes an integer, a float without fraction or a string     *)
(* that spells an integer; a float field takes any float, NaN and the      *)
(* infinities included (allow_inf_nan is left at its default), and a       *)
(* string that spells a number; only an Optional field takes None.  A      *)
(* required int is dumped as the plain integer.                            *)
validate_field(field_name, cell) ==
    LET info == annotation(field_name)
        fail == [ok |-> FALSE, value |-> 0]
    IN  IF cell = None
        THEN IF info.is_optional THEN [ok |-> TRUE, value |-> None] ELSE fail
        ELSE IF info.base_type = "int"
        THEN IF int(cell).ok /\ (cell.t = "float" => cell.n % 2 = 0)
             THEN [ok |-> TRUE,
                   value |-> IF info.is_optional THEN IntCell(int(cell).n) ELSE int(cell).n]
             ELSE fail
        ELSE IF cell.t = "int" THEN [ok |-> TRUE, value |-> Float(2 * cell.n)]
        ELSE IF cell.t = "str"
        THEN IF cell.s = "12" THEN [ok |-> TRUE, value |-> Float(24)]
             ELSE IF cell.s = "1.5" THEN [ok |-> TRUE, value |-> Float(3)]
             ELSE fail
        ELSE IF cell.t \in {"float", "nan", "inf", "-inf"} THEN [ok |-> TRUE, value |-> cell]
        ELSE fail

(* model.model_validate(record_dict) followed by model_dump(): every field *)
(* must validate and, the models being declared extra = "forbid", the      *)
(* record may hold no key that is not a field.                             *)
model_validate(model, record_dict) ==
    IF /\ DOMAIN record_dict \subseteq FieldSet(model)
       /\ \A f \in FieldSet(model) : validate_field(f, record_dict[f]).ok
    THEN [ok |-> TRUE,
          value |-> [f \in FieldSet(model) |-> validate_field(f, record_dict[f]).value]]
    ELSE [ok |-> FALSE, value |-> [f \in FieldSet(model) |-> 0]]

(* The loop over df_to_validate.to_dict(orient='records'): a row that      *)
(* validates is appended to validated_records, one that does not appends   *)
(* its index to errors.                                                    *)
RECURSIVE ValidateLoop(_, _, _, _)
ValidateLoop(df, model, idx, acc) ==
    IF idx > Len(df) THEN acc
    ELSE LET r == model_validate(model, df[idx])
         IN  ValidateLoop(df, model, idx + 1,
                 IF r.ok
                 THEN [acc EXCEPT !.validated_records = Append(@, r.value)]
                 ELSE [acc EXCEPT !.errors = Append(@, idx)])

(* Lines 162-223: normalise, prepare, select, validate. *)
Validated(df, model) ==
    ValidateLoop(df_to_validate(prepare(normalize_columns(df), model), model), model, 1,
                 [validated_records |-> <<>>, errors |-> <<>>])

(* A plausible slip: the errors are collected and logged but never raised, *)
(* so the rows that passed are returned and the failing ones are dropped.  *)
validate_data_silent(df, model) ==
    LET acc == Validated(df, model)
    IN  [raised |-> FALSE, records |-> acc.validated_records, errors |-> acc.errors]

(* A plausible slip: the ValueError is raised only when no row at all      *)
(* validated; otherwise the rows that passed are returned.                 *)
validate_data_raise_if_none_valid(df, model) ==
    LET acc == Validated(df, model)
    IN  IF acc.errors # <<>> /\ acc.validated_records = <<>>
        THEN [raised |-> TRUE, records |-> <<>>, errors |-> acc.errors]
        ELSE [raised |-> FALSE, records |-> acc.validated_records, errors |-> acc.errors]

(* raised: ValueError("Data validation failed for some rows ...");         *)
(* records: the DataFrame of validated records returned otherwise.         *)
validate_data(df, model) ==
    LET acc == Validated(df, model)
    IN  IF acc.errors # <<>>
        THEN [raised |-> TRUE, records |-> <<>>, errors |-> acc.errors]
        ELSE [raised |-> FALSE, records |-> acc.validated_records, errors |-> <<>>]

----------------------------------------------------------------------------
(* The SQLite file *)

Tables == {"counters", "datastreams", "counts"}

NoTable == [exists |-> FALSE, rows |-> <<>>]

(* DataFrame.to_sql(table_name, engine, if_exists=..., index=False) *)
to_sql(table, records, if_exists) ==
    IF if_exists = "replace"
    THEN [exists |-> TRUE, rows |-> records]
    ELSE [exists |-> TRUE, rows |-> table.rows \o records]

----------------------------------------------------------------------------
(* load_data *)

(* create_engine(database_url) *)
engine == [t |-> "engine", n |-> 0]

(* The calls the program makes: create_initial_sql_database's three. *)
LoadCalls ==
    { [file_path |-> "counters.xlsx",    model |-> Counter,    table_name |-> "counters",
       engine |-> engine],
      [file_path |-> "datastreams.xlsx", model |-> Datastream, table_name |-> "datastreams",
       engine |-> engine],
      [file_path |-> "counts.csv",       model |-> Count,      table_name |-> "counts",
       engine |-> engine] }

(* os.path.splitext(file_path): the extension is the last dot of the last  *)
(* path component to the end, "" when there is none.                       *)
splitext(file_path) ==
    CASE file_path = "counters.xlsx"    -> <<"counters", ".xlsx">>
      [] file_path = "datastreams.xlsx" -> <<"datastreams", ".xlsx">>
      [] file_path = "counts.csv"       -> <<"counts", ".csv">>
      [] file_path = "counts.CSV"       -> <<"counts", ".CSV">>
      [] file_path = "counts.xlsx"      -> <<"counts", ".xlsx">>
      [] file_path = "counts.XLSX"      -> <<"counts", ".XLSX">>
      [] file_path = "counts.xls"       -> <<"counts", ".xls">>
      [] file_path = "counts.Xls"       -> <<"counts", ".Xls">>
      [] file_path = "counts.txt"       -> <<"counts", ".txt">>
      [] file_path = "counts.csv.bak"   -> <<"counts.csv", ".bak">>
      [] file_path = "counts"           -> <<"counts", "">>
      [] OTHER                          -> <<file_path, "">>

(* A plausible slip: the extension is compared as it is spelled. *)
file_extension_as_spelled(file_path) == splitext(file_path)[2]

(* `_, file_extension = os.path.splitext(file_path)` then                  *)
(* `file_extension = file_extension.lower()`                               *)
file_extension(file_path) == lower(splitext(file_path)[2])

NoLoad == [file_path |-> "", model |-> Counter, table_name |-> "counters", engine |-> engine,
           branch |-> "", opened |-> FALSE, exc |-> "",
           i |-> 0, read |-> <<>>, total_validated_records |-> 0,
           errors |-> <<>>, wrote |-> FALSE, outcome |-> "none"]

(* The locals of a load_data call on entry. *)
Entered(call) ==
    [NoLoad EXCEPT !.file_path = call.file_path, !.model = call.model,
                   !.table_name = call.table_name, !.engine = call.engine]

(* Where control goes when a load_data call ends.  Inside                  *)
(* create_initial_sql_database a normal return moves on to the next file   *)
(* and an exception leaves the function.                                   *)
CisdAfter(outcome) ==
    IF cisd = 0 THEN 0
    ELSE IF outcome = "raised" THEN 0
    ELSE IF cisd = 3 THEN 0
    ELSE cisd + 1

(* The order of create_initial_sql_database's three load_data calls. *)
CisdOrder == <<"counters", "datastreams", "counts">>

Callable(call) ==
    /\ pc = "idle"
    /\ load.outcome = "none"
    /\ cisd \in 1 .. 3 => call.table_name = CisdOrder[cisd]

(* create_initial_sql_database(db_name) is entered. *)
CreateInitialSqlDatabase ==
    /\ pc = "idle"
    /\ load.outcome = "none"
    /\ cisd = 0
    /\ cisd' = 1
    /\ load' = NoLoad
    /\ UNCHANGED <<db, pc, dunder_name, routes, resp>>
    /\ UNCHANGED mockVars
    /\ UNCHANGED vdVars
    /\ UNCHANGED repVars
    /\ UNCHANGED genVars

(* The two guards at the head of load_data, in order: "" when both pass.   *)
ArgumentError(call) ==
    IF call.engine = None
    THEN "Database engine must be provided for data loading."
    ELSE IF file_extension(call.file_path) \notin {".csv", ".xlsx", ".xls"}
    THEN "Unsupported file type"
    ELSE ""

(* load_data raises ValueError on its arguments. *)
LoadDataRejects(call) ==
    /\ Callable(call)
    /\ ArgumentError(call) # ""
    /\ load' = [Entered(call) EXCEPT !.exc = "ValueError", !.outcome = "raised"]
    /\ cisd' = CisdAfter("raised")
    /\ UNCHANGED <<db, pc, dunder_name, routes, resp>>
    /\ UNCHANGED mockVars
    /\ UNCHANGED vdVars
    /\ UNCHANGED repVars
    /\ UNCHANGED genVars

(* What pd.read_excel finds at an .xlsx path: no file, or a sheet of rows. *)
XlsxFiles(model) ==
    {[found |-> FALSE, df |-> <<>>]}
    \cup {[found |-> TRUE, df |-> df] : df \in Frames(model, MaxXlsxRows)}

(* A plausible slip: the missing file is reported and the error re-raised, *)
(* like every other exception of this branch.                              *)
xlsx_file_not_found_reraised == "raised"

(* `except FileNotFoundError: print(...); return` *)
xlsx_file_not_found == "returned"

(* A plausible slip: the frame is written whether or not it has rows. *)
not_empty_ignored(validated_df) == TRUE

(* `if not validated_df.empty:` *)
not_empty(validated_df) == validated_df # <<>>

(* load_data on an .xlsx path: read, validate and write in one shot. *)
LoadXlsx(call, file) ==
    /\ Callable(call)
    /\ ArgumentError(call) = ""
    /\ file_extension(call.file_path) # ".csv"
    /\ LET v == validate_data(normalize_columns(file.df), call.model)
           base == [Entered(call) EXCEPT !.branch = "xlsx", !.opened = file.found]
       IN  IF ~file.found
           THEN /\ load' = [base EXCEPT !.exc = "FileNotFoundError",
                                        !.outcome = xlsx_file_not_found]
                /\ cisd' = CisdAfter(xlsx_file_not_found)
                /\ db' = db
           ELSE IF v.raised
           THEN \* except Exception: print, raise
                /\ load' = [base EXCEPT !.exc = "ValueError", !.errors = v.errors,
                                        !.outcome = "raised"]
                /\ cisd' = CisdAfter("raised")
                /\ db' = db
           ELSE /\ load' = [base EXCEPT !.read = v.records,
                                        !.total_validated_records =
                                            IF not_empty(v.records) THEN Len(v.records) ELSE 0,
                                        !.wrote = not_empty(v.records),
                                        !.outcome = "returned"]
                /\ cisd' = CisdAfter("returned")
                /\ db' = IF not_empty(v.records)
                         THEN [db EXCEPT ![call.table_name] = to_sql(@, v.records, "replace")]
                         ELSE db
    /\ UNCHANGED <<pc, dunder_name, routes, resp>>
    /\ UNCHANGED mockVars
    /\ UNCHANGED vdVars
    /\ UNCHANGED repVars
    /\ UNCHANGED genVars

(* load_data on a .csv path: pd.read_csv(file_path, chunksize=chunk_size)  *)
(* opens the file; a missing file raises out of load_data.                 *)
LoadCsvOpen(call, file_found) ==
    /\ Callable(call)
    /\ ArgumentError(call) = ""
    /\ file_extension(call.file_path) = ".csv"
    /\ LET base == [Entered(call) EXCEPT !.branch = "csv", !.opened = file_found]
       IN  IF file_found
           THEN /\ load' = [base EXCEPT !.outcome = "running"]
                /\ pc' = "csv"
                /\ cisd' = cisd
           ELSE /\ load' = [base EXCEPT !.exc = "FileNotFoundError", !.outcome = "raised"]
                /\ pc' = "idle"
                /\ cisd' = CisdAfter("raised")
    /\ UNCHANGED <<db, dunder_name, routes, resp>>
    /\ UNCHANGED mockVars
    /\ UNCHANGED vdVars
    /\ UNCHANGED repVars
    /\ UNCHANGED genVars

(* A plausible slip: every chunk is appended, the first one included. *)
chunk_if_exists_always_append(i) == "append"

(* `if i == 0: ... if_exists='replace'  else: ... if_exists='append'` *)
chunk_if_exists(i) == IF i = 0 THEN "replace" ELSE "append"

(* The reader hands out chunk_size rows at a time, so only the last chunk  *)
(* of a file can be short: a further chunk exists only while every chunk   *)
(* so far was full.                                                        *)
MoreChunksPossible == Len(load.read) = load.i * ChunkSize

(* One iteration of `for i, chunk_df in enumerate(csv_iterator)`. *)
LoadCsvChunk(chunk_df) ==
    /\ pc = "csv"
    /\ MoreChunksPossible
    /\ Len(chunk_df) <= ChunkSize
    /\ Len(load.read) + Len(chunk_df) <= MaxCsvRows
    /\ chunk_df # <<>> \/ load.i = 0     \* only a file without data rows yields an empty chunk
    /\ LET v == validate_data(normalize_columns(chunk_df), load.model)
       IN  IF v.raised
           THEN /\ load' = [load EXCEPT !.exc = "ValueError", !.outcome = "raised",
                                        !.errors = v.errors]
                /\ pc' = "idle"
                /\ cisd' = CisdAfter("raised")
                /\ db' = db
           ELSE /\ load' = [load EXCEPT !.i = @ + 1,
                                        !.read = @ \o v.records,
                                        !.total_validated_records =
                                            IF not_empty(v.records) THEN @ + Len(v.records) ELSE @,
                                        !.errors = v.errors,
                                        !.wrote = @ \/ not_empty(v.records)]
                /\ pc' = "csv"
                /\ cisd' = cisd
                /\ db' = IF not_empty(v.records)
                         THEN [db EXCEPT ![load.table_name] =
                                  to_sql(@, v.records, chunk_if_exists(load.i))]
                         ELSE db
    /\ UNCHANGED <<dunder_name, routes, resp>>
    /\ UNCHANGED mockVars
    /\ UNCHANGED vdVars
    /\ UNCHANGED repVars
    /\ UNCHANGED genVars

(* Control is back in load_data's caller: the call's locals are gone. *)
LoadDataExit ==
    /\ pc = "idle"
    /\ load.outcome \in {"returned", "raised"}
    /\ load' = NoLoad
    /\ UNCHANGED <<db, pc, cisd, dunder_name, routes, resp>>
    /\ UNCHANGED mockVars
    /\ UNCHANGED vdVars
    /\ UNCHANGED repVars
    /\ UNCHANGED genVars

(* The iterator is exhausted: load_data prints its total and returns. *)
LoadCsvEnd ==
    /\ pc = "csv"
    /\ load' = [load EXCEPT !.outcome = "returned"]
    /\ pc' = "idle"
    /\ cisd' = CisdAfter("returned")
    /\ UNCHANGED <<db, dunder_name, routes, resp>>
    /\ UNCHANGED mockVars
    /\ UNCHANGED vdVars
    /\ UNCHANGED repVars
    /\ UNCHANGED genVars


----------------------------------------------------------------------------
(* DatabaseManager *)

ErrMsgs == {"database is locked", "disk I/O error"}

(* What the environment does to one request: nothing, engine.connect()     *)
(* fails, or the read fails.                                               *)
NoFault == [kind |-> "none", msg |-> ""]
Faults == {NoFault, [kind |-> "connect", msg |-> "unable to open database file"]}
          \cup {[kind |-> "read", msg |-> m] : m \in ErrMsgs}

Detail(text, e) == [text |-> text, e |-> e]

Return(value) == [kind |-> "return", value |-> value,
                  status_code |-> HTTP_200_OK, detail |-> Detail("", "")]
RaiseHTTP(status_code, detail) == [kind |-> "HTTPException", value |-> <<>>,
                                   status_code |-> status_code, detail |-> detail]
(* An exception that is not an HTTPException leaves the handler. *)
RaiseOther(e) == [kind |-> "Exception", value |-> <<>>,
                  status_code |-> 0, detail |-> Detail("", e)]

(* pd.read_sql("SELECT * FROM <table> ...", connection): the rows, or the  *)
(* SQLAlchemyError raised (a table never written does not exist).          *)
read_sql(table_name, fault) ==
    IF fault.kind = "read" THEN [ok |-> FALSE, rows |-> <<>>, e |-> fault.msg]
    ELSE IF ~db[table_name].exists
    THEN [ok |-> FALSE, rows |-> <<>>, e |-> "no such table"]
    ELSE [ok |-> TRUE, rows |-> db[table_name].rows, e |-> ""]

(* SELECT ... WHERE <column> = <value> *)
Where(rows, column, value) == SelectSeq(rows, LAMBDA row : row[column] = value)

(* A plausible slip: the database error is swallowed, nothing is found. *)
db_error_as_empty(e) == Return(<<>>)

(* `except SQLAlchemyError as e: raise HTTPException(500, f"Database error: {e}")` *)
db_error(e) == RaiseHTTP(HTTP_500_INTERNAL_SERVER_ERROR, Detail("Database error: ", e))

get_all_counters_from_db(fault) ==
    IF fault.kind = "connect" THEN RaiseOther(fault.msg)
    ELSE LET df == read_sql("counters", fault)
         IN  IF df.ok THEN Return(df.rows) ELSE db_error(df.e)

get_datastreams_for_counter_from_db(counter_id, fault) ==
    IF fault.kind = "connect" THEN RaiseOther(fault.msg)
    ELSE LET df == read_sql("datastreams", fault)
         IN  IF df.ok THEN Return(Where(df.rows, "counter_id", counter_id))
             ELSE db_error(df.e)

(* The optional numeric columns of Count the model keeps; the first is the *)
(* one of the six int columns.                                             *)
optional_numeric_cols == <<"raw_count", "cleaned_count">>
int_cols == {"raw_count"}

(* A plausible slip: the value int() cannot convert is left in the record. *)
int_conversion_failed_value_kept(value) == value

(* `except (ValueError, TypeError): cleaned_record[col] = None` *)
int_conversion_failed(value) == None

(* The three branches applied to cleaned_record[col]. *)
clean(col, value) ==
    IF value.t \in {"nan", "inf", "-inf"} THEN None
    ELSE IF value.t = "str" /\ lower(value.s) \in {"nan", "none", ""} THEN None
    ELSE IF col \in int_cols /\ value # None
    THEN IF int(value).ok THEN IntCell(int(value).n) ELSE int_conversion_failed(value)
    ELSE value

cleaned_record(record) ==
    [col \in DOMAIN record |->
        IF \E k \in 1 .. Len(optional_numeric_cols) : optional_numeric_cols[k] = col
        THEN clean(col, record[col])
        ELSE record[col]]

(* One Count built from a cleaned record: the key columns are stored as    *)
(* integers; the optional numeric fields are validated.                    *)
CountFromRow(row) ==
    LET checked == [k \in 1 .. Len(optional_numeric_cols) |->
                       validate_field(optional_numeric_cols[k], row[optional_numeric_cols[k]])]
    IN  IF \A k \in 1 .. Len(checked) : checked[k].ok
        THEN [ok |-> TRUE,
              value |-> [col \in DOMAIN row |->
                            IF \E k \in 1 .. Len(checked) : optional_numeric_cols[k] = col
                            THEN checked[CHOOSE k \in 1 .. Len(checked) :
                                             optional_numeric_cols[k] = col].value
                            ELSE row[col]]]
        ELSE [ok |-> FALSE, value |-> row]

get_counts_for_datastream_from_db(datastream_id, fault) ==
    IF fault.kind = "connect" THEN RaiseOther(fault.msg)
    ELSE LET df == read_sql("counts", fault)
             records == Where(df.rows, "datastream_id", datastream_id)
             counts == [i \in 1 .. Len(records) |-> CountFromRow(cleaned_record(records[i]))]
         IN  IF ~df.ok THEN db_error(df.e)
             ELSE IF \E i \in 1 .. Len(counts) : ~counts[i].ok
             THEN \* except Exception
                  RaiseHTTP(HTTP_500_INTERNAL_SERVER_ERROR,
                            Detail("Unexpected error", "validation error for Count"))
             ELSE Return([i \in 1 .. Len(counts) |-> counts[i].value])

----------------------------------------------------------------------------
(* nmcoast_api_new.app *)

PATH_HEALTH == "/health"
PATH_COUNTERS == "/counters/"
PATH_DATASTREAMS == "/counters/{counter_id}/datastreams/"
PATH_COUNTS == "/datastreams/{datastream_id}/counts"

ApiPaths == {PATH_COUNTERS, PATH_DATASTREAMS, PATH_COUNTS}

MAIN == "__main__"
IMPORTED == "api.nmcoast_api_new"

(* NMCOAST_API.register_routes: the router's three routes. *)
register_routes == ApiPaths

(* Module execution: app = FastAPI(...), @app.get("/health"), and, under   *)
(* `if __name__ == '__main__'`, app.include_router(api_instance.router).   *)
module_routes(name) ==
    IF name = MAIN THEN {PATH_HEALTH} \cup register_routes ELSE {PATH_HEALTH}

Response(path, arg, fault, status, body, detail) ==
    [path |-> path, arg |-> arg, fault |-> fault,
     status |-> status, body |-> body, detail |-> detail]

NoResponse == Response("", 0, NoFault, 0, <<>>, Detail("", ""))

(* What FastAPI sends for the outcome of a path operation function. *)
Send(path, arg, fault, r) ==
    CASE r.kind = "return" ->
            Response(path, arg, fault, HTTP_200_OK, r.value, Detail("", ""))
      [] r.kind = "HTTPException" ->
            Response(path, arg, fault, r.status_code, <<>>, r.detail)
      [] r.kind = "Exception" ->
            Response(path, arg, fault, HTTP_500_INTERNAL_SERVER_ERROR, <<>>,
                     Detail("Internal Server Error", ""))

(* A path the app does not route. *)
NotRouted(path, arg, fault) ==
    Response(path, arg, fault, HTTP_404_NOT_FOUND, <<>>, Detail("Not Found", ""))

get_all_counters(fault) == get_all_counters_from_db(fault)

get_datastreams_for_counter(counter_id, fault) ==
    LET datastreams == get_datastreams_for_counter_from_db(counter_id, fault)
    IN  IF datastreams.kind = "return" /\ datastreams.value = <<>>
        THEN RaiseHTTP(HTTP_404_NOT_FOUND, Detail("Datastreams not found for this counter.", ""))
        ELSE datastreams

(* A plausible slip: an empty result is returned as an empty list. *)
get_counts_for_datastream_no_404(datastream_id, fault) ==
    get_counts_for_datastream_from_db(datastream_id, fault)

get_counts_for_datastream(datastream_id, fault) ==
    LET counts == get_counts_for_datastream_from_db(datastream_id, fault)
    IN  IF counts.kind = "return" /\ counts.value = <<>>
        THEN RaiseHTTP(HTTP_404_NOT_FOUND, Detail("Counts not found for this datastream.", ""))
        ELSE counts

(* A server process executes the module and starts taking requests:       *)
(* `python nmcoast_api_new.py` (uvicorn.run under __main__) or a server    *)
(* that imports the module's app.                                          *)
StartServing(name) ==
    /\ pc = "idle"
    /\ cisd = 0
    /\ load.outcome = "none"
    /\ pc' = "serving"
    /\ dunder_name' = name
    /\ routes' = module_routes(name)
    /\ UNCHANGED <<db, load, cisd, resp>>
    /\ UNCHANGED mockVars
    /\ UNCHANGED vdVars
    /\ UNCHANGED repVars
    /\ UNCHANGED genVars

(* One request at a time is in flight; r is the response to it. *)
Serve(r) ==
    /\ pc = "serving"
    /\ resp = NoResponse
    /\ resp' = r
    /\ UNCHANGED <<db, pc, load, cisd, dunder_name, routes>>
    /\ UNCHANGED mockVars
    /\ UNCHANGED vdVars
    /\ UNCHANGED repVars
    /\ UNCHANGED genVars

(* The client has the response. *)
Deliver ==
    /\ pc = "serving"
    /\ resp # NoResponse
    /\ resp' = NoResponse
    /\ UNCHANGED <<db, pc, load, cisd, dunder_name, routes>>
    /\ UNCHANGED mockVars
    /\ UNCHANGED vdVars
    /\ UNCHANGED repVars
    /\ UNCHANGED genVars

GetHealth ==
    Serve(IF PATH_HEALTH \in routes
          THEN Response(PATH_HEALTH, 0, NoFault, HTTP_200_OK, <<>>,
                        Detail("healthy", ""))
          ELSE NotRouted(PATH_HEALTH, 0, NoFault))

GetAllCounters(fault) ==
    Serve(IF PATH_COUNTERS \in routes
          THEN Send(PATH_COUNTERS, 0, fault, get_all_counters(fault))
          ELSE NotRouted(PATH_COUNTERS, 0, NoFault))

GetDatastreamsForCounter(counter_id, fault) ==
    Serve(IF PATH_DATASTREAMS \in routes
          THEN Send(PATH_DATASTREAMS, counter_id, fault,
                    get_datastreams_for_counter(counter_id, fault))
          ELSE NotRouted(PATH_DATASTREAMS, counter_id, NoFault))

GetCountsForDatastream(datastream_id, fault) ==
    Serve(IF PATH_COUNTS \in routes
          THEN Send(PATH_COUNTS, datastream_id, fault,
                    get_counts_for_datastream(datastream_id, fault))
          ELSE NotRouted(PATH_COUNTS, datastream_id, NoFault))


----------------------------------------------------------------------------
(* nmcoast_api: the mock data *)

MockCounter(counter_id) == [counter_id |-> counter_id]
MockDatastream(datastream_id, counter_id) ==
    [datastream_id |-> datastream_id, counter_id |-> counter_id]
MockCount(count_id, datastream_id, date_time) ==
    [count_id |-> count_id, datastream_id |-> datastream_id, date_time |-> date_time]

(* mock_counters = [Counter(counter_id=1, ...), ..., Counter(counter_id=10, ...)] *)
MOCK_COUNTERS == [i \in 1 .. 10 |-> MockCounter(i)]

(* mock_datastreams = [Datastream(datastream_id=1, counter_id=1, ...), ...] *)
MOCK_DATASTREAM_COUNTER_IDS == <<1, 1, 2, 3, 3, 4, 5, 5, 6, 7, 8, 9, 10, 10>>
MOCK_DATASTREAMS ==
    [i \in 1 .. Len(MOCK_DATASTREAM_COUNTER_IDS) |->
        MockDatastream(i, MOCK_DATASTREAM_COUNTER_IDS[i])]

(* datetime(year, month, day, hour, 0, 0) *)
datetime(year, month, day, hour) ==
    [year |-> year, month |-> month, day |-> day, hour |-> hour]

(* datetime.__le__: year, then month, then day, then hour. *)
datetime_le(a, b) ==
    \/ a.year < b.year
    \/ a.year = b.year /\ a.month < b.month
    \/ a.year = b.year /\ a.month = b.month /\ a.day < b.day
    \/ a.year = b.year /\ a.month = b.month /\ a.day = b.day /\ a.hour <= b.hour

(* The Gregorian calendar behind datetime arithmetic. *)
is_leap(year) == year % 4 = 0 /\ (year % 100 # 0 \/ year % 400 = 0)
days_in_month(year, month) ==
    IF month = 2 THEN (IF is_leap(year) THEN 29 ELSE 28)
    ELSE IF month \in {4, 6, 9, 11} THEN 30
    ELSE 31

(* `current_date += timedelta(days=1)` *)
plus_one_day(date) ==
    IF date.day < days_in_month(date.year, date.month)
    THEN [date EXCEPT !.day = @ + 1]
    ELSE IF date.month < 12
    THEN [date EXCEPT !.month = @ + 1, !.day = 1]
    ELSE [date EXCEPT !.year = @ + 1, !.month = 1, !.day = 1]

first_count_id == 100
start_date == datetime(2024, 5, 27, 0)
end_date == datetime(2024, 6, 5, 0)
times == <<8, 12, 16, 20>>

(* A plausible slip: the loop stops before the end date instead of after it. *)
while_condition_exclusive(current_date) ==
    datetime_le(current_date, end_date) /\ current_date # end_date

(* `while current_date <= end_date` *)
while_condition(current_date) == datetime_le(current_date, end_date)

(* The datetime object each Count is stamped with. *)
dt(current_date, hour) ==
    datetime(current_date.year, current_date.month, current_date.day, hour)

(* `for hour in times`: one Count appended and count_id += 1 per hour.     *)
(* Each loop yields the Counts it appends, given the count_id it starts at.*)
RECURSIVE ForHours(_, _, _, _)
ForHours(current_date, datastream, h, count_id) ==
    IF h > Len(times) THEN <<>>
    ELSE <<MockCount(count_id, datastream.datastream_id, dt(current_date, times[h]))>>
         \o ForHours(current_date, datastream, h + 1, count_id + 1)

(* `for datastream in mock_datastreams` *)
RECURSIVE ForDatastreams(_, _, _, _)
ForDatastreams(current_date, datastreams, d, count_id) ==
    IF d > Len(datastreams) THEN <<>>
    ELSE LET appended == ForHours(current_date, datastreams[d], 1, count_id)
         IN  appended \o ForDatastreams(current_date, datastreams, d + 1,
                                        count_id + Len(appended))

(* `while current_date <= end_date: ...; current_date += timedelta(days=1)` *)
RECURSIVE WhileDate(_, _, _)
WhileDate(current_date, datastreams, count_id) ==
    IF while_condition(current_date)
    THEN LET appended == ForDatastreams(current_date, datastreams, 1, count_id)
         IN  appended \o WhileDate(plus_one_day(current_date), datastreams,
                                    count_id + Len(appended))
    ELSE <<>>

GenerateMockCounts(datastreams) == WhileDate(start_date, datastreams, first_count_id)

(* The same loops, one step at a time.  gen.pc is the statement about to   *)
(* run, gen.datastream and gen.hour are the positions of the two for loops *)
(* in mock_datastreams and times.  The random raw_count, cleaned_count and *)
(* flags of a Count are not carried.                                       *)

(* `mock_counts = []; count_id = 100; ...; current_date = start_date` *)
GenStart ==
    [pc |-> "while", current_date |-> start_date, datastream |-> 0, hour |-> 0,
     count_id |-> first_count_id]

(* `while current_date <= end_date:` enters the body or leaves the loop. *)
GenWhile ==
    /\ gen.pc = "while"
    /\ gen' = IF while_condition(gen.current_date)
              THEN [gen EXCEPT !.pc = "for_datastream", !.datastream = 1]
              ELSE [gen EXCEPT !.pc = "done"]
    /\ UNCHANGED <<mock_routes, mock_counters, mock_datastreams, mock_counts, mock_resp>>
    /\ UNCHANGED dbVars
    /\ UNCHANGED vdVars
    /\ UNCHANGED repVars

(* `for datastream in mock_datastreams:` takes the next datastream or,     *)
(* the list being exhausted, runs `current_date += timedelta(days=1)`.     *)
GenForDatastream ==
    /\ gen.pc = "for_datastream"
    /\ gen' = IF gen.datastream <= Len(mock_datastreams)
              THEN [gen EXCEPT !.pc = "for_hour", !.hour = 1]
              ELSE [gen EXCEPT !.pc = "while",
                               !.current_date = plus_one_day(@)]
    /\ UNCHANGED <<mock_routes, mock_counters, mock_datastreams, mock_counts, mock_resp>>
    /\ UNCHANGED dbVars
    /\ UNCHANGED vdVars
    /\ UNCHANGED repVars

(* `for hour in times:` appends one Count and runs `count_id += 1` or, the *)
(* list being exhausted, goes back to the datastream loop.                 *)
GenForHour ==
    /\ gen.pc = "for_hour"
    /\ IF gen.hour <= Len(times)
       THEN /\ mock_counts' =
                   Append(mock_counts,
                          MockCount(gen.count_id,
                                    mock_datastreams[gen.datastream].datastream_id,
                                    dt(gen.current_date, times[gen.hour])))
            /\ gen' = [gen EXCEPT !.count_id = @ + 1, !.hour = @ + 1]
       ELSE /\ mock_counts' = mock_counts
            /\ gen' = [gen EXCEPT !.pc = "for_datastream", !.datastream = @ + 1]
    /\ UNCHANGED <<mock_routes, mock_counters, mock_datastreams, mock_resp>>
    /\ UNCHANGED dbVars
    /\ UNCHANGED vdVars
    /\ UNCHANGED repVars

----------------------------------------------------------------------------
(* nmcoast_api.app *)

(* The three @app.get(...) decorators run when the module is executed. *)
mock_module_routes == ApiPaths

(* [x for x in xs if x.<attr> == value] *)
Filter(xs, attr, value) == SelectSeq(xs, LAMBDA x : x[attr] = value)

(* any(x.<attr> == value for x in xs) *)
AnyWith(xs, attr, value) == \E i \in 1 .. Len(xs) : xs[i][attr] = value

(* A plausible slip: the empty list is answered like the other two         *)
(* endpoints answer theirs, with a 404.                                    *)
mock_get_all_counters_404_on_empty ==
    IF mock_counters = <<>>
    THEN RaiseHTTP(HTTP_404_NOT_FOUND, Detail("Counters not found.", ""))
    ELSE Return(mock_counters)

mock_get_all_counters == Return(mock_counters)

(* A plausible slip: 404 is decided by the result being empty. *)
mock_get_datastreams_for_counter_404_on_empty(counter_id) ==
    LET associated_datastreams == Filter(mock_datastreams, "counter_id", counter_id)
    IN  IF associated_datastreams = <<>>
        THEN RaiseHTTP(HTTP_404_NOT_FOUND, Detail("Counter not found.", ""))
        ELSE Return(associated_datastreams)

mock_get_datastreams_for_counter(counter_id) ==
    LET counter_exists == AnyWith(mock_counters, "counter_id", counter_id)
    IN  IF ~counter_exists
        THEN RaiseHTTP(HTTP_404_NOT_FOUND, Detail("Counter not found.", ""))
        ELSE Return(Filter(mock_datastreams, "counter_id", counter_id))

(* A plausible slip: 404 is decided by the result being empty. *)
mock_get_counts_for_datastream_404_on_empty(datastream_id) ==
    LET associated_counts == Filter(mock_counts, "datastream_id", datastream_id)
    IN  IF associated_counts = <<>>
        THEN RaiseHTTP(HTTP_404_NOT_FOUND, Detail("Datastream not found.", ""))
        ELSE Return(associated_counts)

mock_get_counts_for_datastream(datastream_id) ==
    LET datastream_exists == AnyWith(mock_datastreams, "datastream_id", datastream_id)
    IN  IF ~datastream_exists
        THEN RaiseHTTP(HTTP_404_NOT_FOUND, Detail("Datastream not found.", ""))
        ELSE Return(Filter(mock_counts, "datastream_id", datastream_id))

MockServe(path, arg, r) ==
    /\ mock_resp' = (IF path \in mock_routes THEN Send(path, arg, NoFault, r)
                     ELSE NotRouted(path, arg, NoFault))
    /\ UNCHANGED <<mock_routes, mock_counters, mock_datastreams, mock_counts>>
    /\ UNCHANGED dbVars
    /\ UNCHANGED vdVars
    /\ UNCHANGED repVars
    /\ UNCHANGED genVars

MockGetAllCounters == MockServe(PATH_COUNTERS, 0, mock_get_all_counters)

MockGetDatastreamsForCounter(counter_id) ==
    MockServe(PATH_DATASTREAMS, counter_id, mock_get_datastreams_for_counter(counter_id))

MockGetCountsForDatastream(datastream_id) ==
    MockServe(PATH_COUNTS, datastream_id, mock_get_counts_for_datastream(datastream_id))

----------------------------------------------------------------------------
(* validate_data as a function of its arguments *)

NoOutcome == [raised |-> FALSE, records |-> <<>>, errors |-> <<>>, called |-> FALSE]

ValidateData ==
    /\ ~vd_out.called
    /\ vd_out' = validate_data(vd_df, vd_model) @@ [called |-> TRUE]
    /\ UNCHANGED <<vd_df, vd_model>>
    /\ UNCHANGED dbVars
    /\ UNCHANGED mockVars
    /\ UNCHANGED repVars
    /\ UNCHANGED genVars

----------------------------------------------------------------------------
(* Specifications *)

(* The SQLite-backed module has been executed; the database file is new. *)
InitDb ==
    /\ db = [t \in Tables |-> NoTable]
    /\ pc = "idle"
    /\ load = NoLoad
    /\ cisd = 0
    /\ dunder_name = IMPORTED
    /\ routes = module_routes(dunder_name)
    /\ resp = NoResponse

(* The mock module is a program of its own: not executed here. *)
InitMockUnloaded ==
    /\ mock_routes = {}
    /\ mock_counters = <<>>
    /\ mock_datastreams = <<>>
    /\ mock_counts = <<>>
    /\ mock_resp = NoResponse

(* The mock module has been executed. *)
InitMock ==
    /\ mock_routes = mock_module_routes
    /\ mock_counters = MOCK_COUNTERS
    /\ mock_datastreams = MOCK_DATASTREAMS
    /\ mock_counts = GenerateMockCounts(MOCK_DATASTREAMS)
    /\ mock_resp = NoResponse

InitVd ==
    /\ vd_df = <<>>
    /\ vd_model = Counter
    /\ vd_out = NoOutcome

(* No repeated load is under observation. *)
InitRep ==
    /\ rep_call = [file_path |-> "", model |-> Counter, table_name |-> "counters",
                   engine |-> engine]
    /\ rep_file = <<>>
    /\ rep_tables = <<>>

(* The generation loop is not under observation. *)
NoGen == [pc |-> "none", current_date |-> start_date, datastream |-> 0, hour |-> 0,
          count_id |-> first_count_id]

InitGen == gen = NoGen

Init == InitDb /\ InitMockUnloaded /\ InitVd /\ InitRep /\ InitGen

Next ==
    \/ CreateInitialSqlDatabase
    \/ \E call \in LoadCalls : \E file \in XlsxFiles(call.model) : LoadXlsx(call, file)
    \/ \E call \in LoadCalls, file_found \in BOOLEAN : LoadCsvOpen(call, file_found)
    \/ \E chunk_df \in Frames(load.model, ChunkSize) : LoadCsvChunk(chunk_df)
    \/ LoadCsvEnd
    \/ LoadDataExit
    \/ \E name \in {MAIN, IMPORTED} : StartServing(name)
    \/ Deliver
    \/ GetHealth
    \/ \E fault \in Faults : GetAllCounters(fault)
    \/ \E counter_id \in ReqIds, fault \in Faults : GetDatastreamsForCounter(counter_id, fault)
    \/ \E datastream_id \in ReqIds, fault \in Faults : GetCountsForDatastream(datastream_id, fault)

Spec == Init /\ [][Next]_vars

(* The mock handlers over every short mock list. *)
BoundedMockCounters ==
    SeqsUpTo({MockCounter(i) : i \in Ids}, MaxMock)
BoundedCounterIds == SeqsUpTo(Ids, MaxMock)
BoundedMockDatastreams ==
    {[i \in 1 .. Len(cs) |-> MockDatastream(i, cs[i])] : cs \in BoundedCounterIds}
BoundedMockCounts ==
    {[i \in 1 .. Len(ds) |-> MockCount(first_count_id + i - 1, ds[i], dt(start_date, times[1]))] :
        ds \in SeqsUpTo(1 .. MaxMock, MaxMock)}

InitMockBounded ==
    /\ mock_routes = mock_module_routes
    /\ mock_counters \in BoundedMockCounters
    /\ mock_datastreams \in BoundedMockDatastreams
    /\ mock_counts \in BoundedMockCounts
    /\ mock_resp = NoResponse

NextMock ==
    \/ MockGetAllCounters
    \/ \E counter_id \in ReqIds : MockGetDatastreamsForCounter(counter_id)
    \/ \E datastream_id \in 0 .. MaxMock : MockGetCountsForDatastream(datastream_id)

InitSpecMock == InitDb /\ (InitMock \/ InitMockBounded) /\ InitVd /\ InitRep /\ InitGen

SpecMock == InitSpecMock /\ [][NextMock]_vars

InitVdBounded ==
    /\ vd_model \in Models
    /\ vd_df \in Frames(vd_model, MaxXlsxRows)
    /\ vd_out = NoOutcome

NextValidate == ValidateData

InitSpecValidate == InitDb /\ InitMockUnloaded /\ InitVdBounded /\ InitRep /\ InitGen

SpecValidate == InitSpecValidate /\ [][NextValidate]_vars

(* Both apps serving GET /counters/: the SQLite file as the loader can     *)
(* leave its counters table (never written, or holding validated rows),    *)
(* the mock lists as above.                                                *)
ValidRecords(model) ==
    {validate_data(<<r>>, model).records[1] :
        r \in {x \in RawRows(model) : ~validate_data(<<x>>, model).raised}}

LoadedTables(model, n) ==
    {NoTable} \cup {[exists |-> TRUE, rows |-> rows] :
                       rows \in SeqsUpTo(ValidRecords(model), n) \ {<<>>}}

InitServingCounters ==
    /\ \E t \in LoadedTables(Counter, MaxXlsxRows) :
           db = [x \in Tables |-> IF x = "counters" THEN t ELSE NoTable]
    /\ pc = "serving"
    /\ load = NoLoad
    /\ cisd = 0
    /\ dunder_name \in {MAIN, IMPORTED}
    /\ routes = module_routes(dunder_name)
    /\ resp = NoResponse

NextCounters ==
    \/ \E fault \in Faults : GetAllCounters(fault)
    \/ Deliver
    \/ MockGetAllCounters

InitSpecCounters == InitServingCounters /\ (InitMock \/ InitMockBounded) /\ InitVd /\ InitRep /\ InitGen

SpecCounters == InitSpecCounters /\ [][NextCounters]_vars

(* load_data called with any engine and any kind of path. *)
ArgPaths == {"counts.csv", "counts.CSV", "counts.xlsx", "counts.XLSX", "counts.xls",
             "counts.Xls", "counts.txt", "counts.csv.bak", "counts"}

ArgCalls ==
    {[file_path |-> p, model |-> Count, table_name |-> "counts", engine |-> e] :
        p \in ArgPaths, e \in {engine, None}}

NextLoadArgs ==
    \/ \E call \in ArgCalls : LoadDataRejects(call)
    \/ \E call \in ArgCalls : \E file \in XlsxFiles(call.model) : LoadXlsx(call, file)
    \/ \E call \in ArgCalls, file_found \in BOOLEAN : LoadCsvOpen(call, file_found)
    \/ \E chunk_df \in Frames(load.model, ChunkSize) : LoadCsvChunk(chunk_df)
    \/ LoadCsvEnd
    \/ LoadDataExit

SpecLoadArgs == Init /\ [][NextLoadArgs]_vars

(* validate_data on frames whose headers are spelled as files spell them,  *)
(* with fields missing, a column that is no field, and blank and infinite  *)
(* cells.                                                                  *)
MaxColumnRows == 2

Spellings(field_name) ==
    CASE field_name = "counter_id"    -> {"counter_id", "Counter ID"}
      [] field_name = "latitude"      -> {"latitude", "LATITUDE"}
      [] field_name = "count_id"      -> {"count_id", "Count ID"}
      [] field_name = "datastream_id" -> {"datastream_id"}
      [] field_name = "raw_count"     -> {"Raw Count"}
      [] field_name = "cleaned_count" -> {"cleaned_count"}

ExtraColumns == {"Site Photo"}

HeaderCells(col) ==
    IF col \in ExtraColumns THEN {IntCell(1), NaN}
    ELSE IF col \in Spellings("datastream_id") THEN {IntCell(1)}
    ELSE IF col \in Spellings("counter_id") \cup Spellings("count_id")
         THEN {IntCell(1), NaN, Inf}
    ELSE IF col \in Spellings("raw_count") THEN {IntCell(1), NaN, Inf, NegInf}
    ELSE {Float(3), NaN, Inf, NegInf}

HeaderSets(model) ==
    {H \in SUBSET (ExtraColumns \cup UNION {Spellings(f) : f \in FieldSet(model)}) :
        /\ \A f \in FieldSet(model) : Cardinality(H \cap Spellings(f)) <= 1
        /\ Spellings("datastream_id") \subseteq H \/ model # Count}

ColumnRows(H) ==
    {row \in [H -> {IntCell(1), Float(3), NaN, Inf, NegInf}] :
        \A col \in H : row[col] \in HeaderCells(col)}

ColumnFrames(model) ==
    UNION {SeqsUpTo(ColumnRows(H), MaxColumnRows) : H \in HeaderSets(model)}

InitVdColumns ==
    /\ vd_model \in {Counter, Count}
    /\ vd_df \in ColumnFrames(vd_model)
    /\ vd_out = NoOutcome

InitSpecColumns == InitDb /\ InitMockUnloaded /\ InitVdColumns /\ InitRep /\ InitGen

SpecColumns == InitSpecColumns /\ [][NextValidate]_vars

(* load_data called twice in succession on one valid, non-empty file, on a *)
(* table as an earlier load can have left it.                              *)
ValidFiles(model, n) ==
    {df \in Frames(model, n) : df # <<>> /\ ~validate_data(df, model).raised}

InitRepeated ==
    /\ rep_call \in {call \in LoadCalls : call.table_name \in {"counters", "counts"}}
    /\ rep_file \in ValidFiles(rep_call.model,
                               IF file_extension(rep_call.file_path) = ".csv"
                               THEN MaxCsvRows ELSE MaxXlsxRows)
    /\ rep_tables = <<>>

InitDbLoaded ==
    /\ \E t \in LoadedTables(rep_call.model, MaxXlsxRows) :
          db = [x \in Tables |-> IF x = rep_call.table_name THEN t ELSE NoTable]
    /\ pc = "idle"
    /\ load = NoLoad
    /\ cisd = 0
    /\ dunder_name = IMPORTED
    /\ routes = module_routes(dunder_name)
    /\ resp = NoResponse

(* The rows pd.read_csv hands out as chunk i + 1. *)
Chunk(file, i) ==
    SubSeq(file, i * ChunkSize + 1,
           IF (i + 1) * ChunkSize < Len(file) THEN (i + 1) * ChunkSize ELSE Len(file))

(* load_data has returned to its caller, which reads the table. *)
LoadDataReturns ==
    /\ pc = "idle"
    /\ load.outcome = "returned"
    /\ load' = NoLoad
    /\ rep_tables' = Append(rep_tables, db[rep_call.table_name])
    /\ UNCHANGED <<db, pc, cisd, dunder_name, routes, resp>>
    /\ UNCHANGED mockVars
    /\ UNCHANGED vdVars
    /\ UNCHANGED <<rep_call, rep_file>>
    /\ UNCHANGED genVars

NextRepeated ==
    \/ Len(rep_tables) < 2 /\ LoadXlsx(rep_call, [found |-> TRUE, df |-> rep_file])
    \/ Len(rep_tables) < 2 /\ LoadCsvOpen(rep_call, TRUE)
    \/ load.i * ChunkSize < Len(rep_file) /\ LoadCsvChunk(Chunk(rep_file, load.i))
    \/ load.i * ChunkSize >= Len(rep_file) /\ LoadCsvEnd
    \/ LoadDataReturns

InitSpecRepeated == InitRepeated /\ InitDbLoaded /\ InitMockUnloaded /\ InitVd /\ InitGen

SpecRepeated == InitSpecRepeated /\ [][NextRepeated]_vars

(* GET /datastreams/{datastream_id}/counts on a counts table whose         *)
(* optional numeric columns hold whatever an SQLite file can hold.         *)
MaxStoredRows == 2

StoredRawCounts ==
    {None, NaN, Inf, NegInf, IntCell(1), Float(7), Float(0 - 7)}
    \cup {Str(s) : s \in {"nan", "NaN", "None", "NONE", "", "12", "1.5", "abc"}}

StoredCleanedCounts == {None, NaN, Float(3), Str("abc")}

StoredCounts ==
    {[i \in 1 .. Len(q) |->
         [count_id |-> i, datastream_id |-> q[i][1], raw_count |-> q[i][2],
          cleaned_count |-> q[i][3]]] :
        q \in SeqsUpTo(Ids \X StoredRawCounts \X StoredCleanedCounts, MaxStoredRows)}

InitServingCounts ==
    /\ \E rows \in StoredCounts :
          db = [x \in Tables |-> IF x = "counts" THEN [exists |-> TRUE, rows |-> rows]
                                 ELSE NoTable]
    /\ pc = "serving"
    /\ load = NoLoad
    /\ cisd = 0
    /\ dunder_name = MAIN
    /\ routes = module_routes(dunder_name)
    /\ resp = NoResponse

NextCounts ==
    \/ \E datastream_id \in ReqIds, fault \in Faults :
          GetCountsForDatastream(datastream_id, fault)
    \/ Deliver

InitSpecCounts == InitServingCounts /\ InitMockUnloaded /\ InitVd /\ InitRep /\ InitGen

SpecCounts == InitSpecCounts /\ [][NextCounts]_vars

(* nmcoast_api being executed: the two lists are built, the generation     *)
(* loop is about to start and the app does not exist yet.                  *)
InitGenerating ==
    /\ mock_routes = {}
    /\ mock_counters = MOCK_COUNTERS
    /\ mock_datastreams = MOCK_DATASTREAMS
    /\ mock_counts = <<>>
    /\ mock_resp = NoResponse
    /\ gen = GenStart

NextGenerate ==
    \/ GenWhile
    \/ GenForDatastream
    \/ GenForHour

InitSpecGenerate == InitDb /\ InitGenerating /\ InitVd /\ InitRep

(* The module is executed by one thread that keeps running. *)
SpecGenerate == InitSpecGenerate /\ [][NextGenerate]_vars /\ WF_vars(NextGenerate)

----------------------------------------------------------------------------
(* Properties *)

(* The indices of the elements of xs whose attr equals value. *)
Matching(xs, attr, value) == {i \in 1 .. Len(xs) : xs[i][attr] = value}

(* ys is exactly the elements of xs whose attr equals value, in xs order. *)
IsSelection(ys, xs, attr, value) ==
    LET M == Matching(xs, attr, value)
    IN  /\ Len(ys) = Cardinality(M)
        /\ \A i \in M : ys[Cardinality({j \in M : j <= i})] = xs[i]

(* C1: GET /counters/{counter_id}/datastreams/ on the SQLite-backed app     *)
(* answers 404 when counter_id is no row of the counters table, and for a   *)
(* counter_id that is one it answers 200 with all datastreams rows of that  *)
(* counter (an empty list when it has none).  Stated for requests whose     *)
(* reads succeed.                                                           *)
C1_DatastreamsNotFoundIffCounterUnknown ==
    ( /\ resp.path = PATH_DATASTREAMS
      /\ PATH_DATASTREAMS \in routes
      /\ resp.fault = NoFault
      /\ db["counters"].exists
      /\ db["datastreams"].exists )
    => IF Matching(db["counters"].rows, "counter_id", resp.arg) = {}
       THEN resp.status = HTTP_404_NOT_FOUND
       ELSE /\ resp.status = HTTP_200_OK
            /\ IsSelection(resp.body, db["datastreams"].rows, "counter_id", resp.arg)

(* C2: GET /datastreams/{datastream_id}/counts on the SQLite-backed app     *)
(* answers 404 exactly when no counts row has that datastream_id, whatever  *)
(* the datastreams table holds; otherwise it answers 200 with all counts    *)
(* rows of that datastream_id, one Count per row, in row order.  Stated for *)
(* requests whose read succeeds (a failing read is C9's case).              *)
C2_CountsNotFoundIffNoRows ==
    ( /\ resp.path = PATH_COUNTS
      /\ PATH_COUNTS \in routes
      /\ resp.fault = NoFault
      /\ db["counts"].exists )
    => /\ resp.status \in {HTTP_404_NOT_FOUND, HTTP_200_OK}
       /\ resp.status = HTTP_404_NOT_FOUND
            <=> Matching(db["counts"].rows, "datastream_id", resp.arg) = {}
       /\ resp.status = HTTP_200_OK
            => IsSelection(resp.body, db["counts"].rows, "datastream_id", resp.arg)

(* The datastream is a row of the datastreams table, it has no counts, and  *)
(* the answer is 404.                                                       *)
C2_Witness ==
    /\ resp.path = PATH_COUNTS
    /\ PATH_COUNTS \in routes
    /\ resp.fault = NoFault
    /\ db["counts"].exists
    /\ db["counts"].rows # <<>>
    /\ Matching(db["datastreams"].rows, "datastream_id", resp.arg) # {}
    /\ resp.status = HTTP_404_NOT_FOUND

(* C3: the mock get_datastreams_for_counter raises 404 iff no element of    *)
(* mock_counters has the counter_id; otherwise it returns exactly the       *)
(* elements of mock_datastreams with that counter_id, in order (an empty    *)
(* list when the counter has none).                                         *)
C3_MockDatastreams404IffCounterUnknown ==
    mock_resp.path = PATH_DATASTREAMS
    => /\ mock_resp.status \in {HTTP_404_NOT_FOUND, HTTP_200_OK}
       /\ mock_resp.status = HTTP_404_NOT_FOUND
            <=> Matching(mock_counters, "counter_id", mock_resp.arg) = {}
       /\ mock_resp.status = HTTP_200_OK
            => IsSelection(mock_resp.body, mock_datastreams, "counter_id", mock_resp.arg)

(* The counter exists, owns no datastream, and the answer is 200 with []. *)
C3_Witness ==
    /\ mock_resp.path = PATH_DATASTREAMS
    /\ Matching(mock_counters, "counter_id", mock_resp.arg) # {}
    /\ Matching(mock_datastreams, "counter_id", mock_resp.arg) = {}
    /\ mock_datastreams # <<>>
    /\ mock_resp.status = HTTP_200_OK
    /\ mock_resp.body = <<>>

(* C4: the mock get_counts_for_datastream raises 404 iff no element of      *)
(* mock_datastreams has the datastream_id; otherwise it returns exactly the *)
(* elements of mock_counts with that datastream_id, in order (an empty list *)
(* when the datastream has none).                                           *)
C4_MockCounts404IffDatastreamUnknown ==
    mock_resp.path = PATH_COUNTS
    => /\ mock_resp.status \in {HTTP_404_NOT_FOUND, HTTP_200_OK}
       /\ mock_resp.status = HTTP_404_NOT_FOUND
            <=> Matching(mock_datastreams, "datastream_id", mock_resp.arg) = {}
       /\ mock_resp.status = HTTP_200_OK
            => IsSelection(mock_resp.body, mock_counts, "datastream_id", mock_resp.arg)

(* The datastream exists, has no count, and the answer is 200 with []. *)
C4_Witness ==
    /\ mock_resp.path = PATH_COUNTS
    /\ Matching(mock_datastreams, "datastream_id", mock_resp.arg) # {}
    /\ Matching(mock_counts, "datastream_id", mock_resp.arg) = {}
    /\ mock_counts # <<>>
    /\ mock_resp.status = HTTP_200_OK
    /\ mock_resp.body = <<>>

(* Every datastreams row names a counters row, every counts row names a     *)
(* datastreams row.                                                         *)
ReferentialIntegrity ==
    /\ \A i \in 1 .. Len(db["datastreams"].rows) :
          Matching(db["counters"].rows, "counter_id",
                   db["datastreams"].rows[i]["counter_id"]) # {}
    /\ \A i \in 1 .. Len(db["counts"].rows) :
          Matching(db["datastreams"].rows, "datastream_id",
                   db["counts"].rows[i]["datastream_id"]) # {}

(* C5: after successful load_data calls into the counters, datastreams and  *)
(* counts tables (create_initial_sql_database's three among them), every    *)
(* datastreams row has the counter_id of some counters row and every counts *)
(* row the datastream_id of some datastreams row.  Stated for the states in *)
(* which a load_data call has just returned and all three tables are        *)
(* loaded.                                                                  *)
C5_ReferentialIntegrityAfterLoad ==
    ( /\ pc = "idle"
      /\ load.outcome = "returned"
      /\ \A t \in Tables : db[t].exists )
    => ReferentialIntegrity

RowFails(model, row) == \E f \in DOMAIN row : row[f] = NaN
Dumped(model, row) ==
    [f \in FieldSet(model) |->
        IF f \notin DOMAIN row THEN None
        ELSE IF row[f].t = "int" THEN row[f].n
        ELSE row[f]]

(* C6: validate_data raises ValueError iff at least one input row fails     *)
(* validation; when none fails it returns exactly one validated record per  *)
(* input row, in input order (never a subset that omits failing rows).      *)
C6_ValidateRaisesIffSomeRowFails ==
    vd_out.called
    => /\ vd_out.raised <=> \E i \in 1 .. Len(vd_df) : RowFails(vd_model, vd_df[i])
       /\ ~vd_out.raised
            => /\ Len(vd_out.records) = Len(vd_df)
               /\ \A i \in 1 .. Len(vd_df) : vd_out.records[i] = Dumped(vd_model, vd_df[i])

(* A frame with a failing row and a valid row: the call raised. *)
C6_Witness ==
    /\ vd_out.called
    /\ vd_out.raised
    /\ \E i, j \in 1 .. Len(vd_df) :
          RowFails(vd_model, vd_df[i]) /\ ~RowFails(vd_model, vd_df[j])

(* C7: when load_data on a CSV file returns after n >= 1 non-empty chunks,  *)
(* the target table holds exactly the validated records of chunks 1..n in   *)
(* file order and nothing it held before (chunk 1 replaces, later chunks    *)
(* append).                                                                 *)
C7_CsvLoadReplacesThenAppends ==
    ( /\ file_extension(load.file_path) = ".csv"
      /\ load.outcome = "returned"
      /\ load.i >= 1
      /\ load.read # <<>> )
    => /\ db[load.table_name].exists
       /\ db[load.table_name].rows = load.read

(* A CSV load of two chunks has returned. *)
C7_Witness ==
    /\ load.file_path = "counts.csv"
    /\ load.outcome = "returned"
    /\ load.i >= 2
    /\ Len(load.read) >= 2

(* C8: if a row of a file being loaded fails validation, load_data ends by  *)
(* raising and writes nothing for the chunk holding the failing row or for  *)
(* any later chunk (for XLSX: nothing at all).                              *)
C8_FailedValidationWritesNothing ==
    [][ /\ (load'.errors # <<>> /\ load' # load)
            => (load'.outcome = "raised" /\ pc' = "idle" /\ db' = db)
        /\ (load.outcome = "raised" /\ load.errors # <<>>) => db' = db ]_vars

(* A CSV load raised at its second chunk, after writing the first. *)
C8_Witness ==
    /\ load.file_path = "counts.csv"
    /\ load.outcome = "raised"
    /\ load.errors # <<>>
    /\ load.i = 1
    /\ load.wrote

(* The table a path's DatabaseManager method reads. *)
TableOf(path) ==
    CASE path = PATH_COUNTERS    -> "counters"
      [] path = PATH_DATASTREAMS -> "datastreams"
      [] path = PATH_COUNTS      -> "counts"

(* C9: each of the three DatabaseManager query methods turns a database     *)
(* error raised while reading into an HTTPException with status 500 whose   *)
(* detail carries the exception message: never a 404, never an empty result.*)
C9_DatabaseErrorIs500 ==
    ( /\ resp.path \in ApiPaths
      /\ resp.path \in routes
      /\ resp.fault.kind # "connect" )
    => /\ resp.fault.kind = "read"
            => /\ resp.status = HTTP_500_INTERNAL_SERVER_ERROR
               /\ resp.detail = Detail("Database error: ", resp.fault.msg)
       /\ (resp.fault.kind = "none" /\ ~db[TableOf(resp.path)].exists)
            => /\ resp.status = HTTP_500_INTERNAL_SERVER_ERROR
               /\ resp.detail = Detail("Database error: ", "no such table")

(* A read of datastreams failed although the counter has datastreams rows. *)
C9_Witness ==
    /\ resp.path = PATH_DATASTREAMS
    /\ resp.path \in routes
    /\ resp.fault.kind = "read"
    /\ Matching(db["datastreams"].rows, "counter_id", resp.arg) # {}
    /\ resp.status = HTTP_500_INTERNAL_SERVER_ERROR

(* C10: each of the two FastAPI apps routes GET /counters/,                 *)
(* GET /counters/{counter_id}/datastreams/ and                              *)
(* GET /datastreams/{datastream_id}/counts however it is started, also when *)
(* a server imports the module's app.                                       *)
C10_BothAppsRouteTheThreeEndpoints ==
    /\ pc = "serving" => ApiPaths \subseteq routes
    /\ mock_routes # {} => ApiPaths \subseteq mock_routes


(* C11: GET /counters/ answers with the whole list of counters, in source  *)
(* order, and never with a 404 - the mock app with all of mock_counters    *)
(* (200 and [] when there are none), the SQLite app, where the handler is  *)
(* routed, with one Counter per row of the counters table whenever the     *)
(* read succeeds, and with a 500 when it does not.                         *)
C11_CountersUnfilteredNever404 ==
    /\ mock_resp.path = PATH_COUNTERS =>
          /\ mock_resp.status = HTTP_200_OK
          /\ mock_resp.body = mock_counters
    /\ resp.path = PATH_COUNTERS /\ PATH_COUNTERS \in routes =>
          /\ resp.status # HTTP_404_NOT_FOUND
          /\ read_sql("counters", resp.fault).ok /\ resp.fault.kind # "connect" =>
                /\ resp.status = HTTP_200_OK
                /\ resp.body = db["counters"].rows

C11_Witness ==
    /\ mock_resp.path = PATH_COUNTERS
    /\ mock_counters = <<>>
    /\ mock_resp.status = HTTP_200_OK
    /\ resp.path = PATH_COUNTERS
    /\ resp.status = HTTP_200_OK
    /\ Len(resp.body) = MaxXlsxRows

(* C12: a load_data call whose engine is None, or whose path does not end  *)
(* in .csv, .xlsx or .xls in any letter case, raises ValueError without    *)
(* having read the file and without a database write; otherwise a .csv     *)
(* path takes the chunked branch and an .xlsx/.xls path the single-shot    *)
(* branch.                                                                 *)
C12_ArgumentsCheckedBeforeAnyEffect ==
    [][ (load.outcome = "none" /\ load'.outcome # "none") =>
          /\ ( \/ load'.engine = None
               \/ load'.file_path \in {"counts.txt", "counts.csv.bak", "counts"} ) =>
                /\ load'.outcome = "raised"
                /\ load'.exc = "ValueError"
                /\ ~load'.opened
                /\ load'.branch = ""
                /\ db' = db
          /\ ( /\ load'.engine # None
               /\ load'.file_path \in {"counts.csv", "counts.CSV"} ) =>
                load'.branch = "csv"
          /\ ( /\ load'.engine # None
               /\ load'.file_path \in {"counts.xlsx", "counts.XLSX", "counts.xls", "counts.Xls"} ) =>
                load'.branch = "xlsx" ]_vars

C12_Witness ==
    /\ load.engine = None
    /\ load.file_path = "counts.csv"
    /\ load.outcome = "raised"
    /\ load.exc = "ValueError"
    /\ db["counts"].exists

(* C14: when a chunk of a CSV load fails validation the tables stay as the *)
(* chunks before it left them: after at least one good chunk the table     *)
(* holds exactly the records of the good chunks of this call, and when the *)
(* first chunk fails no step of the call has changed the database.         *)
C14_CsvLoadKeepsEarlierChunks ==
    [][ /\ (load.outcome = "none" /\ load'.branch = "csv") => db' = db
        /\ (pc = "csv" /\ load'.outcome = "raised") =>
              /\ db' = db
              /\ load.i = 0 => ~load.wrote
              /\ load.i >= 1 =>
                    db'[load.table_name] = [exists |-> TRUE, rows |-> load.read] ]_vars

C14_Witness ==
    /\ load.branch = "csv"
    /\ load.outcome = "raised"
    /\ load.exc = "ValueError"
    /\ load.i = 1
    /\ load.errors # <<>>
    /\ db[load.table_name].rows = load.read

(* C17: load_data on an .xlsx/.xls path with no file behind it returns     *)
(* without raising and without writing, and inside                         *)
(* create_initial_sql_database the next file is loaded.                    *)
C17_MissingXlsxIsSkipped ==
    [][ (load.outcome = "none" /\ load'.branch = "xlsx" /\ ~load'.opened) =>
          /\ load'.exc = "FileNotFoundError"
          /\ load'.outcome = "returned"
          /\ ~load'.wrote
          /\ db' = db
          /\ cisd \in {1, 2} => cisd' = cisd + 1 ]_vars

C17_Witness ==
    /\ load.table_name = "counters"
    /\ load.exc = "FileNotFoundError"
    /\ load.outcome = "returned"
    /\ cisd = 2

(* C18: a load_data call that found its file and has validated no record   *)
(* (the file has a header and no data rows) has left the database as it    *)
(* was at every step, and returns with total_validated_records = 0.        *)
C18_EmptyFileWritesNothing ==
    [][ ( /\ load' # load
          /\ load'.opened
          /\ load'.read = <<>>
          /\ load'.outcome \in {"running", "returned"} ) =>
          /\ db' = db
          /\ ~load'.wrote
          /\ load'.total_validated_records = 0 ]_vars

C18_Witness ==
    /\ load.branch = "csv"
    /\ load.opened
    /\ load.i = 1
    /\ load.read = <<>>
    /\ load.outcome = "returned"
    /\ load.total_validated_records = 0
    /\ db[load.table_name].rows # <<>>

(* The field a header stands for, read off the spellings; a header that    *)
(* stands for none keeps a name of its own.                                *)
FieldOf(col) ==
    IF \E f \in FieldSet(vd_model) : col \in Spellings(f)
    THEN CHOOSE f \in FieldSet(vd_model) : col \in Spellings(f)
    ELSE "site_photo"

Canonical(df) ==
    [i \in 1 .. Len(df) |->
        [c \in {FieldOf(col) : col \in DOMAIN df[i]} |->
            df[i][CHOOSE col \in DOMAIN df[i] : FieldOf(col) = c]]]

WithoutExtras(df) ==
    [i \in 1 .. Len(df) |-> [col \in DOMAIN df[i] \ ExtraColumns |-> df[i][col]]]

(* C13: the headers are lower-cased and their spaces turned to underscores *)
(* before they are matched with the field names - a frame validates as the *)
(* same frame under the field names does - and normalising twice (once in  *)
(* load_data, once in validate_data) gives what normalising once gives.    *)
C13_HeadersNormalisedIdempotently ==
    vd_out.called =>
        /\ normalize_columns(vd_df) = Canonical(vd_df)
        /\ normalize_columns(normalize_columns(vd_df)) = normalize_columns(vd_df)
        /\ vd_out = validate_data(Canonical(vd_df), vd_model) @@ [called |-> TRUE]
        /\ vd_out = validate_data(normalize_columns(vd_df), vd_model) @@ [called |-> TRUE]

C13_Witness ==
    /\ vd_out.called
    /\ ~vd_out.raised
    /\ Len(vd_df) = MaxColumnRows
    /\ {"Count ID", "Raw Count"} \subseteq DOMAIN vd_df[1]
    /\ vd_out.records[1].count_id = 1
    /\ vd_out.records[1].raw_count = IntCell(1)

(* A required int is dumped as a plain integer; every other numeric field  *)
(* as a cell value.                                                        *)
NonFinite(field_name, value) ==
    /\ annotation(field_name) # [base_type |-> "int", is_optional |-> FALSE]
    /\ value.t \in {"nan", "inf", "-inf"}

(* C15: after validate_data has returned, no numeric field of a returned   *)
(* record holds NaN, +inf or -inf.                                         *)
C15_NoNonFiniteNumberValidated ==
    (vd_out.called /\ ~vd_out.raised) =>
        \A i \in 1 .. Len(vd_out.records) : \A f \in FieldSet(vd_model) :
            ~NonFinite(f, vd_out.records[i][f])

(* C16: validation sees exactly the schema's fields.  With a required      *)
(* field missing from the headers every row fails; a missing optional      *)
(* field is None in every record; and the columns that are no fields       *)
(* change nothing: the outcome is that of the frame without them.          *)
C16_ExactlyTheSchemaFields ==
    (vd_out.called /\ vd_df # <<>>) =>
        LET present == {FieldOf(col) : col \in DOMAIN vd_df[1]}
            absent == FieldSet(vd_model) \ present
        IN  /\ (\E f \in absent : ~annotation(f).is_optional) =>
                  /\ vd_out.raised
                  /\ vd_out.errors = [i \in 1 .. Len(vd_df) |-> i]
            /\ ~vd_out.raised =>
                  \A i \in 1 .. Len(vd_out.records) :
                      /\ DOMAIN vd_out.records[i] = FieldSet(vd_model)
                      /\ \A f \in absent : vd_out.records[i][f] = None
            /\ vd_out = validate_data(WithoutExtras(vd_df), vd_model) @@ [called |-> TRUE]

C16_Witness ==
    /\ vd_out.called
    /\ ~vd_out.raised
    /\ Len(vd_df) = MaxColumnRows
    /\ "Site Photo" \in DOMAIN vd_df[1]
    /\ "Raw Count" \notin DOMAIN vd_df[1]
    /\ vd_model = Count
    /\ vd_out.records[MaxColumnRows].raw_count = None

(* C19: the second of two successive load_data calls on the same valid,    *)
(* non-empty file leaves the table with the rows the first call left.      *)
C19_LoadTwiceIsLoadOnce ==
    Len(rep_tables) = 2 => rep_tables[2] = rep_tables[1]

C19_Witness ==
    /\ Len(rep_tables) = 2
    /\ file_extension(rep_call.file_path) = ".csv"
    /\ Len(rep_file) = MaxCsvRows
    /\ Len(rep_tables[2].rows) = MaxCsvRows

(* What the claim says a stored value of an int column is answered as. *)
IntOrNull(value) ==
    CASE value \in {None, NaN, Inf, NegInf}                            -> None
      [] value \in {Str(s) : s \in {"nan", "NaN", "None", "NONE", ""}} -> None
      [] value = IntCell(1)                                            -> IntCell(1)
      [] value = Float(7)                                              -> IntCell(3)
      [] value = Float(0 - 7)                                          -> IntCell(0 - 3)
      [] value = Str("12")                                             -> IntCell(12)
      [] value \in {Str("1.5"), Str("abc")}                            -> None

(* C20: a 200 answer of GET /datastreams/{id}/counts holds one Count per   *)
(* matching row, in row order, whose raw_count is an integer or null: null *)
(* for NaN, the infinities and the strings nan/none/'' in any case, int()  *)
(* of any other value, and null for what int() cannot convert - such a     *)
(* value never fails the request.                                          *)
C20_IntColumnsAreIntOrNull ==
    (resp.path = PATH_COUNTS /\ resp.fault = NoFault) =>
        LET rows == Where(db["counts"].rows, "datastream_id", resp.arg)
        IN  /\ resp.status = HTTP_200_OK =>
                  /\ Len(resp.body) = Len(rows)
                  /\ \A i \in 1 .. Len(rows) :
                        /\ resp.body[i].count_id = rows[i].count_id
                        /\ resp.body[i].raw_count = IntOrNull(rows[i].raw_count)
                        /\ resp.body[i].raw_count.t \in {"int", "none"}
            /\ ( /\ rows # <<>>
                 /\ \A i \in 1 .. Len(rows) : rows[i].cleaned_count # Str("abc") ) =>
                  resp.status = HTTP_200_OK

C20_Witness ==
    /\ resp.path = PATH_COUNTS
    /\ resp.status = HTTP_200_OK
    /\ Len(resp.body) = MaxStoredRows
    /\ db["counts"].rows[1].raw_count = Str("abc")
    /\ db["counts"].rows[2].raw_count = Float(0 - 7)
    /\ resp.body[1].raw_count = None
    /\ resp.body[2].raw_count = IntCell(0 - 3)


----------------------------------------------------------------------------
(* The days and hours the mock counts are to cover: 27 May 2024 to         *)
(* 5 June 2024 inclusive, at 8, 12, 16 and 20 o'clock.                     *)
GeneratedDays ==
    {<<2024, 5, day>> : day \in 27 .. 31} \cup {<<2024, 6, day>> : day \in 1 .. 5}
GeneratedHours == {8, 12, 16, 20}

(* Positions in mock_counts of the Counts of one datastream. *)
CountsOf(datastream_id) ==
    {i \in 1 .. Len(mock_counts) : mock_counts[i].datastream_id = datastream_id}

(* Positions in mock_counts of the Counts of one datastream at one day and hour. *)
CountsAt(datastream_id, day, hour) ==
    {i \in CountsOf(datastream_id) :
        mock_counts[i].date_time = datetime(day[1], day[2], day[3], hour)}

GenerationDone == gen.pc = "done"

GeneratedAsDescribed ==
    /\ \A d \in 1 .. Len(mock_datastreams) :
          LET datastream_id == mock_datastreams[d].datastream_id
          IN  /\ \A day \in GeneratedDays, hour \in GeneratedHours :
                    Cardinality(CountsAt(datastream_id, day, hour)) = 1
              /\ Cardinality(CountsOf(datastream_id)) = 40
    /\ \A i \in 1 .. Len(mock_counts) :
          /\ mock_counts[i].count_id = 100 + (i - 1)
          /\ \E d \in 1 .. Len(mock_datastreams) :
                /\ mock_datastreams[d].datastream_id = mock_counts[i].datastream_id
                /\ \E c \in 1 .. Len(mock_counters) :
                      mock_counters[c].counter_id = mock_datastreams[d].counter_id

(* C21: the generation loop of the mock counts terminates, and when it has *)
(* every mock datastream has exactly one Count per day from 27 May 2024 to *)
(* 5 June 2024 and hour in 8, 12, 16, 20 and 40 Counts in all; the         *)
(* count_ids are 100, 101, ... in generation order; every Count's          *)
(* datastream_id is that of a mock datastream whose counter_id is that of  *)
(* a mock counter.                                                         *)
C21_MockCountsGenerated ==
    /\ <>GenerationDone
    /\ [](GenerationDone => GeneratedAsDescribed)

(* The loop has run to its end over the fourteen mock datastreams. *)
C21_Witness ==
    /\ GenerationDone
    /\ Len(mock_counts) = 40 * Len(MOCK_DATASTREAMS)
    /\ mock_counts[Len(mock_counts)].date_time = datetime(2024, 6, 5, 20)

====
